---- MODULE Spec2Model ----
(***************************************************************************)
(* Telemetry pipeline of the TeideSat on-board computer: the Collector,   *)
(* Processor and Transmitter FreeRTOS tasks (telemetry_tasks.c), the four *)
(* packet generators (telemetry_generators.c) and the bounded packet      *)
(* queue they share (telemetry_storage, modelled from its contract).      *)
(*                                                                         *)
(* Time is the FreeRTOS tick count.  A task is ready when its wake tick   *)
(* has been reached; vTaskDelay and vTaskDelayUntil set the wake tick.    *)
(* Every statement that touches shared state is one step, so the tasks    *)
(* interleave between any two queue operations.                            *)
(***************************************************************************)
EXTENDS Integers, Sequences, FiniteSets, TLC

(* ------------------------------ bounds --------------------------------- *)
\* Ticks observed after the first state of a run (Spec, SpecLate).
MaxTick == 5000
\* Ticks observed after boot when no task is ever late (SpecTimed).
MaxTickTimed == 151000
\* Ticks modelled from the first state of a fair timed run.
MaxTickFair == 35000
\* Capacity of the packet queue (N in the storage contract).
QueueCapacity == 4

(* -------------------------- program constants -------------------------- *)
CollectorPeriodMs == 5000
ProcessorIdleMs == 1000
BurstDelayMs == 50
PollDelayMs == 2000
TicksPerUnit == 1000
WindowPeriod == 30
SeqModulus == 65536
PayloadUptimeOffset == 100
BatteryFull == 85
SecondsPerHour == 3600
TickRateHz == 1000

Tasks == {"collector", "processor", "transmitter"}

TELEM_SYSTEM_STATUS == "TELEM_SYSTEM_STATUS"
TELEM_POWER_DATA == "TELEM_POWER_DATA"
TELEM_TEMPERATURE_DATA == "TELEM_TEMPERATURE_DATA"
TELEM_COMMUNICATION_STATUS == "TELEM_COMMUNICATION_STATUS"

\* The value of a telemetry_packet_t local that has not been written yet.
NoPacket == [header |-> [type |-> "NONE"]]

VARIABLES
    tick,                      \* xTaskGetTickCount()
    wake,                      \* per task: the tick at which it is ready again
    pc,                        \* per task: the statement it executes next
    xLastWakeTime,             \* Collector local
    sequence_number,           \* static uint16_t
    system_uptime,             \* static uint32_t
    queue,                     \* contents of the packet queue, oldest first
    initialized,               \* telemetry_storage_init has run
    packet_p,                  \* Processor local `packet`
    processed_count,           \* Processor local
    packet_t,                  \* Transmitter local `packet`
    ground_station_available,  \* Transmitter local
    transmission_count,        \* Transmitter local
    available,                 \* Transmitter local (last value read)
    \* history variables: they record what happened, no step reads them
    t0,                        \* tick of the first state of the run
    built,                     \* generator calls so far
    lastBuilt,                 \* packet built by the last generator call
    stored,                    \* successful stores so far
    dropped,                   \* sequence numbers of packets whose store failed
    cycleLog,                  \* the generator calls of this cycle: kind, sequence
                               \* and store result
    lastDeq,                   \* packet returned by the last successful retrieve
    prevDeq,                   \* packet returned by the successful retrieve before it
    initCount,                 \* calls of telemetry_storage_init so far
    usedUninit,                \* a queue operation ran before telemetry_storage_init
    gateCond,                  \* value of the gate condition when last evaluated
    openWin,                   \* index of the window in which the gate last opened
    openCount,                 \* gate openings within window openWin
    burstSent,                 \* packets retrieved by the Transmitter since it last read the occupancy
    startTick,                 \* tick the Collector read into xLastWakeTime at its start
    cycle,                     \* vTaskDelayUntil calls so far: index of the current cycle
    cycleTookTime              \* the tick count advanced during the cycle before this one

taskVars == <<wake, pc>>
collectorVars == <<xLastWakeTime, sequence_number, system_uptime>>
queueVars == <<queue, initialized>>
processorVars == <<packet_p, processed_count>>
transmitterVars == <<packet_t, ground_station_available, transmission_count, available>>
genHist == <<built, lastBuilt, stored, dropped, cycleLog>>
gateHist == <<gateCond, openWin, openCount>>
deqHist == <<lastDeq, prevDeq>>
initHist == <<initCount>>
burstHist == <<burstSent>>
periodHist == <<startTick, cycle, cycleTookTime>>

vars == <<tick, wake, pc, xLastWakeTime, sequence_number, system_uptime, queue,
          initialized, packet_p, processed_count, packet_t,
          ground_station_available, transmission_count, available, t0, built,
          lastBuilt, stored, dropped, cycleLog, lastDeq, prevDeq, initCount, usedUninit,
          gateCond, openWin, openCount, burstSent, startTick, cycle,
          cycleTookTime>>

(* ------------------------------ helpers -------------------------------- *)
Min(S) == CHOOSE x \in S : \A y \in S : x <= y

pdMS_TO_TICKS(ms) == (ms * TickRateHz) \div 1000

\* Variants of sequence_number++ with a slip in them.
NextSeqSkip(s) == (s + 2) % SeqModulus
NextSeqDown(s) == (s - 1) % SeqModulus
NextSeqNoWrap(s) == s + 1

\* x++ on a uint16_t
NextSeq(s) == (s + 1) % SeqModulus

\* x++ on a uint32_t.  The wrap at 2^32 lies beyond every run considered
\* here (2^32 cycles or packets), so the successor is the plain one.
NextU32(n) == n + 1

\* SubU32 with a floor at zero: no wrap when a < b.
SubU32Floor(a, b) == IF a >= b
                     THEN [hi |-> ((a - b) \div SeqModulus) % SeqModulus,
                           lo |-> (a - b) % SeqModulus]
                     ELSE [hi |-> 0, lo |-> 0]

\* a - b on uint32_t operands, as its two 16-bit halves (the value is
\* hi * 2^16 + lo); a negative difference wraps around 2^32.
SubU32(a, b) == [hi |-> ((a - b) \div SeqModulus) % SeqModulus,
                 lo |-> (a - b) % SeqModulus]

\* (xTaskGetTickCount() / 1000) % 30 == 0
GateCondition(t) == (t \div TicksPerUnit) % WindowPeriod = 0

\* Index of the 30-unit period a tick lies in.
WindowOf(t) == t \div (TicksPerUnit * WindowPeriod)

Ready(task) == wake[task] <= tick

(* --------------------- packet queue (storage contract) ----------------- *)
\* The storage module is known by its contract: a bounded FIFO queue of
\* packets held by value.  Before telemetry_storage_init has run the queue
\* holds no packet (only the Collector stores, and it initialises first), so
\* a retrieve reports empty and the occupancy reads 0; usedUninit records
\* that such a call was made.
\* telemetry_storage_init: establishes an empty bounded queue.
telemetry_storage_init == <<>>

\* telemetry_store_packet: success indicator and contents afterwards.
StoreOk(q) == Len(q) < QueueCapacity
telemetry_store_packet(q, p) == IF StoreOk(q) THEN Append(q, p) ELSE q

\* telemetry_retrieve_packet: success indicator, packet returned, contents.
RetrieveOk(q) == Len(q) > 0
RetrievedPacket(q) == Head(q)
telemetry_retrieve_packet(q) == Tail(q)

\* telemetry_available_packets: current occupancy.
telemetry_available_packets(q) == Len(q)

(* ------------------------------ generators ----------------------------- *)
\* header.type, header.sequence = sequence_number++ (the increment is in
\* StoreBuilt), header.priority.  header.timestamp and the platform and
\* sensor readings of the payloads are written here and read only by the
\* printf calls of the consumers; the packet value leaves them out.
Header(type, priority) ==
    [type |-> type, sequence |-> sequence_number, priority |-> priority]

\* StoreBuilt with a retry: the Collector repeats the generator call until
\* its store succeeds.
StoreBuiltRetry(pkt, next) ==
    /\ pc["collector"] \in {"gen_system", "gen_power", "gen_temperature", "gen_subsystem"}
    /\ Ready("collector")
    /\ sequence_number' = NextSeq(sequence_number)
    /\ queue' = telemetry_store_packet(queue, pkt)
    /\ pc' = [pc EXCEPT !["collector"] = IF StoreOk(queue) THEN next ELSE @]
    /\ built' = built + 1
    /\ lastBuilt' = pkt
    /\ stored' = IF StoreOk(queue) THEN stored + 1 ELSE stored
    /\ dropped' = IF StoreOk(queue) THEN dropped
                  ELSE dropped \cup {pkt.header.sequence}
    /\ cycleLog' = IF StoreOk(queue)
                   THEN Append(cycleLog, [type |-> pkt.header.type,
                                          sequence |-> pkt.header.sequence,
                                          stored |-> TRUE])
                   ELSE cycleLog
    /\ UNCHANGED <<tick, wake, xLastWakeTime, initialized, processorVars,
                   transmitterVars, t0, deqHist, initHist, usedUninit, gateHist,
                   burstHist, periodHist>>

\* StoreBuilt with the sequence counter advanced only when the store
\* succeeds.
StoreBuiltCountsStored(pkt, next) ==
    /\ pc["collector"] \in {"gen_system", "gen_power", "gen_temperature", "gen_subsystem"}
    /\ Ready("collector")
    /\ sequence_number' = IF StoreOk(queue) THEN NextSeq(sequence_number)
                                         ELSE sequence_number
    /\ queue' = telemetry_store_packet(queue, pkt)
    /\ pc' = [pc EXCEPT !["collector"] = next]
    /\ built' = built + 1
    /\ lastBuilt' = pkt
    /\ stored' = IF StoreOk(queue) THEN stored + 1 ELSE stored
    /\ dropped' = IF StoreOk(queue) THEN dropped
                  ELSE dropped \cup {pkt.header.sequence}
    /\ cycleLog' = Append(cycleLog, [type |-> pkt.header.type,
                                     sequence |-> pkt.header.sequence,
                                     stored |-> StoreOk(queue)])
    /\ UNCHANGED <<tick, wake, xLastWakeTime, initialized, processorVars,
                   transmitterVars, t0, deqHist, initHist, usedUninit, gateHist,
                   burstHist, periodHist>>

\* Shared tail of the four generators: sequence_number++ and
\* telemetry_store_packet(&telem); the Collector then runs `next`.
StoreBuilt(pkt, next) ==
    /\ pc["collector"] \in {"gen_system", "gen_power", "gen_temperature", "gen_subsystem"}
    /\ Ready("collector")
    /\ sequence_number' = NextSeq(sequence_number)
    /\ queue' = telemetry_store_packet(queue, pkt)
    /\ pc' = [pc EXCEPT !["collector"] = next]
    /\ built' = built + 1
    /\ lastBuilt' = pkt
    /\ stored' = IF StoreOk(queue) THEN stored + 1 ELSE stored
    /\ dropped' = IF StoreOk(queue) THEN dropped
                  ELSE dropped \cup {pkt.header.sequence}
    /\ cycleLog' = Append(cycleLog, [type |-> pkt.header.type,
                                     sequence |-> pkt.header.sequence,
                                     stored |-> StoreOk(queue)])
    /\ UNCHANGED <<tick, wake, xLastWakeTime, initialized, processorVars,
                   transmitterVars, t0, deqHist, initHist, usedUninit, gateHist,
                   burstHist, periodHist>>

\* generate_system_telemetry in a Collector loop that lacks the call of
\* generate_power_telemetry.
generate_system_telemetry_SkipPower ==
    /\ pc["collector"] = "gen_system"
    /\ system_uptime' = NextU32(system_uptime)
    /\ StoreBuilt([header |-> Header(TELEM_SYSTEM_STATUS, 1),
                   payload |-> [uptime_seconds |-> system_uptime]],
                  "gen_temperature")

\* generate_system_telemetry with `++system_uptime`: the packet carries the
\* advanced counter.
generate_system_telemetry_PreIncrement ==
    /\ pc["collector"] = "gen_system"
    /\ system_uptime' = NextU32(system_uptime)
    /\ StoreBuilt([header |-> Header(TELEM_SYSTEM_STATUS, 1),
                   payload |-> [uptime_seconds |-> NextU32(system_uptime)]],
                  "gen_power")

generate_system_telemetry ==
    /\ pc["collector"] = "gen_system"
    /\ system_uptime' = NextU32(system_uptime)
    /\ StoreBuilt([header |-> Header(TELEM_SYSTEM_STATUS, 1),
                   payload |-> [uptime_seconds |-> system_uptime]],
                  "gen_power")

generate_power_telemetry ==
    /\ pc["collector"] = "gen_power"
    /\ UNCHANGED system_uptime
    /\ StoreBuilt([header |-> Header(TELEM_POWER_DATA, 2),
                   payload |-> [battery_level |->
                       (BatteryFull - (system_uptime \div SecondsPerHour)) % 256]],
                  "gen_temperature")

generate_temperature_telemetry ==
    /\ pc["collector"] = "gen_temperature"
    /\ UNCHANGED system_uptime
    /\ StoreBuilt([header |-> Header(TELEM_TEMPERATURE_DATA, 1),
                   payload |-> [obc_temperature |-> 35]],
                  "gen_subsystem")

generate_subsystem_telemetry ==
    /\ pc["collector"] = "gen_subsystem"
    /\ UNCHANGED system_uptime
    /\ StoreBuilt([header |-> Header(TELEM_COMMUNICATION_STATUS, 1),
                   payload |-> [comms_uptime |-> system_uptime,
                                payload_uptime |->
                                    SubU32(system_uptime, PayloadUptimeOffset)]],
                  "delay")

(* ------------------------------ Collector ------------------------------ *)
\* TickType_t xLastWakeTime = xTaskGetTickCount();
CollectorStart ==
    /\ pc["collector"] = "start"
    /\ Ready("collector")
    /\ xLastWakeTime' = tick
    /\ startTick' = tick
    /\ UNCHANGED <<cycle, cycleTookTime>>
    /\ pc' = [pc EXCEPT !["collector"] = "init"]
    /\ UNCHANGED <<tick, wake, sequence_number, system_uptime, queueVars,
                   processorVars, transmitterVars, t0, genHist, deqHist,
                   initHist, usedUninit, gateHist,
                   burstHist>>

\* telemetry_storage_init();
CollectorInit ==
    /\ pc["collector"] = "init"
    /\ Ready("collector")
    /\ queue' = telemetry_storage_init
    /\ initialized' = TRUE
    /\ initCount' = initCount + 1
    /\ pc' = [pc EXCEPT !["collector"] = "gen_system"]
    /\ UNCHANGED <<tick, wake, collectorVars, processorVars, transmitterVars,
                   t0, genHist, deqHist, usedUninit, gateHist,
                   burstHist, periodHist>>

\* CollectorDelayUntil as vTaskDelay: the next deadline is the current tick
\* plus the period.
CollectorDelayFromNow ==
    /\ pc["collector"] = "delay"
    /\ Ready("collector")
    /\ xLastWakeTime' = tick + pdMS_TO_TICKS(CollectorPeriodMs)
    /\ wake' = [wake EXCEPT !["collector"] =
                    IF xLastWakeTime' > tick THEN xLastWakeTime' ELSE 0]
    /\ pc' = [pc EXCEPT !["collector"] = "gen_system"]
    /\ cycleLog' = <<>>
    /\ cycle' = cycle + 1
    /\ cycleTookTime' = (tick > xLastWakeTime)
    /\ UNCHANGED startTick
    /\ UNCHANGED <<tick, sequence_number, system_uptime, queueVars,
                   processorVars, transmitterVars, t0, built, lastBuilt, stored,
                   dropped, deqHist, initHist, usedUninit, gateHist,
                   burstHist>>

\* vTaskDelayUntil(&xLastWakeTime, pdMS_TO_TICKS(5000));
CollectorDelayUntil ==
    /\ pc["collector"] = "delay"
    /\ Ready("collector")
    /\ xLastWakeTime' = xLastWakeTime + pdMS_TO_TICKS(CollectorPeriodMs)
    /\ wake' = [wake EXCEPT !["collector"] =
                    IF xLastWakeTime' > tick THEN xLastWakeTime' ELSE 0]
    /\ pc' = [pc EXCEPT !["collector"] = "gen_system"]
    /\ cycleLog' = <<>>
    /\ cycle' = cycle + 1
    /\ cycleTookTime' = (tick > xLastWakeTime)
    /\ UNCHANGED startTick
    /\ UNCHANGED <<tick, sequence_number, system_uptime, queueVars,
                   processorVars, transmitterVars, t0, built, lastBuilt, stored,
                   dropped, deqHist, initHist, usedUninit, gateHist,
                   burstHist>>

(* ------------------------------ Processor ------------------------------ *)
\* ProcessorRetrieve with processed_count++ outside the if.
ProcessorRetrieveCountsEmpty ==
    /\ pc["processor"] = "retrieve"
    /\ Ready("processor")
    /\ usedUninit' = (usedUninit \/ ~initialized)
    /\ processed_count' = NextU32(processed_count)
    /\ IF RetrieveOk(queue)
       THEN /\ packet_p' = RetrievedPacket(queue)
            /\ queue' = telemetry_retrieve_packet(queue)
            /\ lastDeq' = RetrievedPacket(queue)
            /\ prevDeq' = lastDeq
            /\ pc' = [pc EXCEPT !["processor"] = "report"]
            /\ UNCHANGED wake
       ELSE /\ wake' = [wake EXCEPT !["processor"] = tick + pdMS_TO_TICKS(ProcessorIdleMs)]
            /\ UNCHANGED <<packet_p, queue, deqHist, pc>>
    /\ UNCHANGED <<tick, collectorVars, initialized, transmitterVars, t0,
                   genHist, initHist, gateHist,
                   burstHist, periodHist>>

\* ProcessorRetrieve that stops polling after the first empty retrieve.
ProcessorRetrieveGivesUp ==
    /\ pc["processor"] = "retrieve"
    /\ Ready("processor")
    /\ usedUninit' = (usedUninit \/ ~initialized)
    /\ IF RetrieveOk(queue)
       THEN /\ packet_p' = RetrievedPacket(queue)
            /\ queue' = telemetry_retrieve_packet(queue)
            /\ processed_count' = NextU32(processed_count)
            /\ lastDeq' = RetrievedPacket(queue)
            /\ prevDeq' = lastDeq
            /\ pc' = [pc EXCEPT !["processor"] = "report"]
       ELSE /\ pc' = [pc EXCEPT !["processor"] = "stopped"]
            /\ UNCHANGED <<packet_p, queue, processed_count, deqHist>>
    /\ UNCHANGED <<tick, wake, collectorVars, initialized, transmitterVars, t0,
                   genHist, initHist, gateHist,
                   burstHist, periodHist>>

\* ProcessorRetrieve with the vTaskDelay outside the else: the Processor
\* also suspends after a successful retrieve.
ProcessorRetrieveAlwaysDelays ==
    /\ pc["processor"] = "retrieve"
    /\ Ready("processor")
    /\ usedUninit' = (usedUninit \/ ~initialized)
    /\ wake' = [wake EXCEPT !["processor"] = tick + pdMS_TO_TICKS(ProcessorIdleMs)]
    /\ IF RetrieveOk(queue)
       THEN /\ packet_p' = RetrievedPacket(queue)
            /\ queue' = telemetry_retrieve_packet(queue)
            /\ processed_count' = NextU32(processed_count)
            /\ lastDeq' = RetrievedPacket(queue)
            /\ prevDeq' = lastDeq
            /\ UNCHANGED pc
       ELSE /\ UNCHANGED <<packet_p, queue, processed_count, deqHist, pc>>
    /\ UNCHANGED <<tick, collectorVars, initialized, transmitterVars, t0,
                   genHist, initHist, gateHist,
                   burstHist, periodHist>>

\* if(telemetry_retrieve_packet(&packet)) { processed_count++; ... }
\* else { vTaskDelay(pdMS_TO_TICKS(1000)); }
ProcessorRetrieve ==
    /\ pc["processor"] = "retrieve"
    /\ Ready("processor")
    /\ usedUninit' = (usedUninit \/ ~initialized)
    /\ IF RetrieveOk(queue)
       THEN /\ packet_p' = RetrievedPacket(queue)
            /\ queue' = telemetry_retrieve_packet(queue)
            /\ processed_count' = NextU32(processed_count)
            /\ lastDeq' = RetrievedPacket(queue)
            /\ prevDeq' = lastDeq
            /\ pc' = [pc EXCEPT !["processor"] = "report"]
            /\ UNCHANGED wake
       ELSE /\ wake' = [wake EXCEPT !["processor"] = tick + pdMS_TO_TICKS(ProcessorIdleMs)]
            /\ UNCHANGED <<packet_p, queue, processed_count, deqHist, pc>>
    /\ UNCHANGED <<tick, collectorVars, initialized, transmitterVars, t0,
                   genHist, initHist, gateHist,
                   burstHist, periodHist>>

\* switch(packet.header.type) { ... } printf(..., telemetry_available_packets());
ProcessorReport ==
    /\ pc["processor"] = "report"
    /\ Ready("processor")
    /\ packet_p.header.type \in {TELEM_SYSTEM_STATUS, TELEM_POWER_DATA,
                                 TELEM_TEMPERATURE_DATA, TELEM_COMMUNICATION_STATUS}
    /\ telemetry_available_packets(queue) >= 0
    /\ usedUninit' = (usedUninit \/ ~initialized)
    /\ pc' = [pc EXCEPT !["processor"] = "retrieve"]
    /\ UNCHANGED <<tick, wake, collectorVars, queueVars, processorVars,
                   transmitterVars, t0, genHist, deqHist, initHist, gateHist,
                   burstHist, periodHist>>

(* ----------------------------- Transmitter ----------------------------- *)
\* if((xTaskGetTickCount() / 1000) % 30 == 0) ground_station_available = true;
TransmitterGate ==
    /\ pc["transmitter"] = "gate"
    /\ Ready("transmitter")
    /\ ground_station_available' = (GateCondition(tick) \/ ground_station_available)
    /\ gateCond' = GateCondition(tick)
    /\ openWin' = IF GateCondition(tick) THEN WindowOf(tick) ELSE openWin
    /\ openCount' = IF ~GateCondition(tick) THEN openCount
                    ELSE IF openWin = WindowOf(tick) THEN openCount + 1 ELSE 1
    /\ pc' = [pc EXCEPT !["transmitter"] = "check"]
    /\ UNCHANGED <<tick, wake, collectorVars, queueVars, processorVars, packet_t,
                   transmission_count, available, t0, genHist, deqHist,
                   initHist, usedUninit,
                   burstHist, periodHist>>

\* TransmitterCheck with the 50 ms burst delay in place of the 2000 ms poll
\* delay.
TransmitterCheckShortPoll ==
    /\ pc["transmitter"] = "check"
    /\ Ready("transmitter")
    /\ IF ground_station_available
       THEN /\ available' = telemetry_available_packets(queue)
            /\ usedUninit' = (usedUninit \/ ~initialized)
            /\ IF available' > 0
               THEN /\ pc' = [pc EXCEPT !["transmitter"] = "drain"]
                    /\ burstSent' = 0
                    /\ UNCHANGED <<wake, ground_station_available>>
               ELSE /\ ground_station_available' = FALSE
                    /\ burstSent' = 0
                    /\ wake' = [wake EXCEPT !["transmitter"] = tick + pdMS_TO_TICKS(BurstDelayMs)]
                    /\ pc' = [pc EXCEPT !["transmitter"] = "gate"]
       ELSE /\ wake' = [wake EXCEPT !["transmitter"] = tick + pdMS_TO_TICKS(BurstDelayMs)]
            /\ pc' = [pc EXCEPT !["transmitter"] = "gate"]
            /\ UNCHANGED <<available, usedUninit, ground_station_available, burstSent>>
    /\ UNCHANGED <<tick, collectorVars, queueVars, processorVars, packet_t,
                   transmission_count, t0, genHist, deqHist, initHist, gateHist,
                   periodHist>>

\* TransmitterCheck with `ground_station_available = false` inside
\* `if(available > 0)`: an open gate that finds the queue empty stays open.
TransmitterCheckKeepsGate ==
    /\ pc["transmitter"] = "check"
    /\ Ready("transmitter")
    /\ IF ground_station_available
       THEN /\ available' = telemetry_available_packets(queue)
            /\ usedUninit' = (usedUninit \/ ~initialized)
            /\ IF available' > 0
               THEN /\ pc' = [pc EXCEPT !["transmitter"] = "drain"]
                    /\ burstSent' = 0
                    /\ UNCHANGED <<wake, ground_station_available>>
               ELSE /\ UNCHANGED ground_station_available
                    /\ burstSent' = 0
                    /\ wake' = [wake EXCEPT !["transmitter"] = tick + pdMS_TO_TICKS(PollDelayMs)]
                    /\ pc' = [pc EXCEPT !["transmitter"] = "gate"]
       ELSE /\ wake' = [wake EXCEPT !["transmitter"] = tick + pdMS_TO_TICKS(PollDelayMs)]
            /\ pc' = [pc EXCEPT !["transmitter"] = "gate"]
            /\ UNCHANGED <<available, usedUninit, ground_station_available, burstSent>>
    /\ UNCHANGED <<tick, collectorVars, queueVars, processorVars, packet_t,
                   transmission_count, t0, genHist, deqHist, initHist, gateHist,
                   periodHist>>

\* if(ground_station_available) { available = telemetry_available_packets();
\*   if(available > 0) <burst> ; ground_station_available = false; }
\* vTaskDelay(pdMS_TO_TICKS(2000));
TransmitterCheck ==
    /\ pc["transmitter"] = "check"
    /\ Ready("transmitter")
    /\ IF ground_station_available
       THEN /\ available' = telemetry_available_packets(queue)
            /\ usedUninit' = (usedUninit \/ ~initialized)
            /\ IF available' > 0
               THEN /\ pc' = [pc EXCEPT !["transmitter"] = "drain"]
                    /\ burstSent' = 0
                    /\ UNCHANGED <<wake, ground_station_available>>
               ELSE /\ ground_station_available' = FALSE
                    /\ burstSent' = 0
                    /\ wake' = [wake EXCEPT !["transmitter"] = tick + pdMS_TO_TICKS(PollDelayMs)]
                    /\ pc' = [pc EXCEPT !["transmitter"] = "gate"]
       ELSE /\ wake' = [wake EXCEPT !["transmitter"] = tick + pdMS_TO_TICKS(PollDelayMs)]
            /\ pc' = [pc EXCEPT !["transmitter"] = "gate"]
            /\ UNCHANGED <<available, usedUninit, ground_station_available, burstSent>>
    /\ UNCHANGED <<tick, collectorVars, queueVars, processorVars, packet_t,
                   transmission_count, t0, genHist, deqHist, initHist, gateHist,
                   periodHist>>

\* TransmitterDrain without `ground_station_available = false` after the
\* burst.
TransmitterDrainKeepsGate ==
    /\ pc["transmitter"] = "drain"
    /\ Ready("transmitter")
    /\ usedUninit' = (usedUninit \/ ~initialized)
    /\ IF RetrieveOk(queue)
       THEN /\ packet_t' = RetrievedPacket(queue)
            /\ queue' = telemetry_retrieve_packet(queue)
            /\ transmission_count' = NextU32(transmission_count)
            /\ burstSent' = burstSent + 1
            /\ lastDeq' = RetrievedPacket(queue)
            /\ prevDeq' = lastDeq
            /\ wake' = [wake EXCEPT !["transmitter"] = tick + pdMS_TO_TICKS(BurstDelayMs)]
            /\ UNCHANGED pc
       ELSE /\ wake' = [wake EXCEPT !["transmitter"] = tick + pdMS_TO_TICKS(PollDelayMs)]
            /\ pc' = [pc EXCEPT !["transmitter"] = "gate"]
            /\ UNCHANGED <<packet_t, queue, transmission_count, deqHist, burstSent>>
    /\ UNCHANGED <<tick, collectorVars, initialized, processorVars, available,
                   ground_station_available, t0, genHist, initHist, gateHist,
                   periodHist>>

\* TransmitterDrain whose loop does not end on an empty queue: it retrieves
\* again at once.
TransmitterDrainNoExit ==
    /\ pc["transmitter"] = "drain"
    /\ Ready("transmitter")
    /\ usedUninit' = (usedUninit \/ ~initialized)
    /\ IF RetrieveOk(queue)
       THEN /\ packet_t' = RetrievedPacket(queue)
            /\ queue' = telemetry_retrieve_packet(queue)
            /\ transmission_count' = NextU32(transmission_count)
            /\ burstSent' = burstSent + 1
            /\ lastDeq' = RetrievedPacket(queue)
            /\ prevDeq' = lastDeq
            /\ wake' = [wake EXCEPT !["transmitter"] = tick + pdMS_TO_TICKS(BurstDelayMs)]
       ELSE /\ UNCHANGED <<packet_t, queue, transmission_count, deqHist, burstSent,
                           wake>>
    /\ UNCHANGED <<tick, pc, collectorVars, initialized, processorVars, available,
                   ground_station_available, t0, genHist, initHist, gateHist,
                   periodHist>>

\* TransmitterDrain as a counted loop: the burst ends after the announced
\* number of packets (or on an empty queue).
TransmitterDrainCounted ==
    /\ pc["transmitter"] = "drain"
    /\ Ready("transmitter")
    /\ usedUninit' = (usedUninit \/ ~initialized)
    /\ IF RetrieveOk(queue) /\ burstSent < available
       THEN /\ packet_t' = RetrievedPacket(queue)
            /\ queue' = telemetry_retrieve_packet(queue)
            /\ transmission_count' = NextU32(transmission_count)
            /\ burstSent' = burstSent + 1
            /\ lastDeq' = RetrievedPacket(queue)
            /\ prevDeq' = lastDeq
            /\ wake' = [wake EXCEPT !["transmitter"] = tick + pdMS_TO_TICKS(BurstDelayMs)]
            /\ UNCHANGED <<pc, ground_station_available>>
       ELSE /\ ground_station_available' = FALSE
            /\ wake' = [wake EXCEPT !["transmitter"] = tick + pdMS_TO_TICKS(PollDelayMs)]
            /\ pc' = [pc EXCEPT !["transmitter"] = "gate"]
            /\ UNCHANGED <<packet_t, queue, transmission_count, deqHist, burstSent>>
    /\ UNCHANGED <<tick, collectorVars, initialized, processorVars, available,
                   t0, genHist, initHist, gateHist,
                   periodHist>>

\* while(telemetry_retrieve_packet(&packet)) { transmission_count++;
\*   vTaskDelay(pdMS_TO_TICKS(50)); }
\* ground_station_available = false; ... vTaskDelay(pdMS_TO_TICKS(2000));
TransmitterDrain ==
    /\ pc["transmitter"] = "drain"
    /\ Ready("transmitter")
    /\ usedUninit' = (usedUninit \/ ~initialized)
    /\ IF RetrieveOk(queue)
       THEN /\ packet_t' = RetrievedPacket(queue)
            /\ queue' = telemetry_retrieve_packet(queue)
            /\ transmission_count' = NextU32(transmission_count)
            /\ burstSent' = burstSent + 1
            /\ lastDeq' = RetrievedPacket(queue)
            /\ prevDeq' = lastDeq
            /\ wake' = [wake EXCEPT !["transmitter"] = tick + pdMS_TO_TICKS(BurstDelayMs)]
            /\ UNCHANGED <<pc, ground_station_available>>
       ELSE /\ ground_station_available' = FALSE
            /\ wake' = [wake EXCEPT !["transmitter"] = tick + pdMS_TO_TICKS(PollDelayMs)]
            /\ pc' = [pc EXCEPT !["transmitter"] = "gate"]
            /\ UNCHANGED <<packet_t, queue, transmission_count, deqHist, burstSent>>
    /\ UNCHANGED <<tick, collectorVars, initialized, processorVars, available,
                   t0, genHist, initHist, gateHist,
                   periodHist>>

(* -------------------------------- time --------------------------------- *)
\* The next tick at which a contact window begins or ends.
NextBoundary(t) ==
    IF GateCondition(t)
    THEN (t \div TicksPerUnit + 1) * TicksPerUnit
    ELSE (WindowOf(t) + 1) * TicksPerUnit * WindowPeriod

\* The next tick at which anything can change: a delayed task becomes ready
\* or a contact window begins or ends.
NextTime == Min({wake[task] : task \in {x \in Tasks : wake[x] > tick}}
                \cup {NextBoundary(tick)})

\* A task whose delay has expired by tick t is ready; its wake tick is
\* cleared (0) because nothing reads it again.
Woken(t) == [task \in Tasks |-> IF wake[task] <= t THEN 0 ELSE wake[task]]

\* The tick count advances; tasks that are ready may be kept waiting (they
\* are preempted, or the scheduler runs something else).
Tick ==
    /\ NextTime - t0 <= MaxTick
    /\ tick' = NextTime
    /\ wake' = Woken(NextTime)
    /\ UNCHANGED <<pc, collectorVars, queueVars, processorVars,
                   transmitterVars, t0, genHist, deqHist, initHist, usedUninit,
                   gateHist,
                   burstHist, periodHist>>

\* The tick count advances only when every task is blocked in a delay: a
\* ready task runs before the next tick.
TickIdle ==
    /\ \A task \in Tasks : ~Ready(task)
    /\ NextTime - t0 <= MaxTickTimed
    /\ tick' = NextTime
    /\ wake' = Woken(NextTime)
    /\ UNCHANGED <<pc, collectorVars, queueVars, processorVars,
                   transmitterVars, t0, genHist, deqHist, initHist, usedUninit,
                   gateHist,
                   burstHist, periodHist>>

(* ---------------------------- specification ---------------------------- *)
\* The three tasks have been created and the scheduler starts.
Init ==
    /\ tick = 0
    /\ wake = [task \in Tasks |-> 0]
    /\ pc = [task \in Tasks |->
                IF task = "collector" THEN "start"
                ELSE IF task = "processor" THEN "retrieve" ELSE "gate"]
    /\ xLastWakeTime = 0
    /\ sequence_number = 0
    /\ system_uptime = 0
    /\ queue = <<>>
    /\ initialized = FALSE
    /\ packet_p = NoPacket
    /\ processed_count = 0
    /\ packet_t = NoPacket
    /\ ground_station_available = FALSE
    /\ transmission_count = 0
    /\ available = 0
    /\ t0 = 0
    /\ built = 0
    /\ lastBuilt = NoPacket
    /\ stored = 0
    /\ dropped = {}
    /\ cycleLog = <<>>
    /\ lastDeq = NoPacket
    /\ prevDeq = NoPacket
    /\ initCount = 0
    /\ usedUninit = FALSE
    /\ gateCond = FALSE
    /\ openWin = -1
    /\ openCount = 0
    /\ burstSent = 0
    /\ startTick = 0
    /\ cycle = 0
    /\ cycleTookTime = FALSE

\* The state 16383 Collector cycles after boot, at the tick the Collector
\* wakes for cycle 16383 (4 * 16383 = 65532 packets built): no task was ever
\* late, no store failed and the Processor retrieved every packet, so the
\* queue is empty, the Processor (polling on whole seconds) is ready and the
\* Transmitter (polling on even seconds) sleeps until the next even second.
\* The 16-bit sequence counter wraps during the next cycle.
WrapCycles == SeqModulus \div 4 - 1

WrapTick == WrapCycles * pdMS_TO_TICKS(CollectorPeriodMs)

InitWrap ==
    /\ tick = WrapTick
    /\ wake = [task \in Tasks |->
                  IF task = "transmitter"
                  THEN WrapTick - TicksPerUnit + pdMS_TO_TICKS(PollDelayMs)
                  ELSE 0]
    /\ pc = [task \in Tasks |->
                IF task = "collector" THEN "gen_system"
                ELSE IF task = "processor" THEN "retrieve" ELSE "gate"]
    /\ xLastWakeTime = WrapTick
    /\ sequence_number = (4 * WrapCycles) % SeqModulus
    /\ system_uptime = WrapCycles
    /\ queue = <<>>
    /\ initialized = TRUE
    /\ packet_p = [header |-> [type |-> TELEM_COMMUNICATION_STATUS,
                               sequence |-> (4 * WrapCycles - 1) % SeqModulus,
                               priority |-> 1],
                   payload |-> [comms_uptime |-> WrapCycles,
                                payload_uptime |->
                                    SubU32(WrapCycles, PayloadUptimeOffset)]]
    /\ processed_count = 4 * WrapCycles
    /\ packet_t = NoPacket
    /\ ground_station_available = FALSE
    /\ transmission_count = 0
    /\ available = 0
    /\ t0 = WrapTick
    /\ built = 4 * WrapCycles
    /\ lastBuilt = packet_p
    /\ stored = 4 * WrapCycles
    /\ dropped = {}
    /\ cycleLog = <<>>
    /\ lastDeq = packet_p
    /\ prevDeq = [header |-> [type |-> TELEM_TEMPERATURE_DATA,
                              sequence |-> (4 * WrapCycles - 2) % SeqModulus,
                              priority |-> 1],
                  payload |-> [obc_temperature |-> 35]]
    /\ initCount = 1
    /\ usedUninit = FALSE
    /\ gateCond = FALSE
    /\ openWin = WindowOf(WrapTick)
    /\ openCount = 1
    /\ burstSent = 0
    /\ startTick = 0
    /\ cycle = WrapCycles
    /\ cycleTookTime = FALSE

TaskStep ==
    \/ CollectorStart
    \/ CollectorInit
    \/ generate_system_telemetry
    \/ generate_power_telemetry
    \/ generate_temperature_telemetry
    \/ generate_subsystem_telemetry
    \/ CollectorDelayUntil
    \/ ProcessorRetrieve
    \/ ProcessorReport
    \/ TransmitterGate
    \/ TransmitterCheck
    \/ TransmitterDrain

Next == TaskStep \/ Tick

Spec == Init /\ [][Next]_vars

\* Runs from boot and runs from the state before the sequence counter wraps.
SpecLate == (Init \/ InitWrap) /\ [][Next]_vars


\* Spec with the Processor scheduled fairly: whenever it is ready it
\* eventually runs, and the tick count keeps advancing.  The scheduling of
\* the Collector and the Transmitter is arbitrary.
SpecFair ==
    /\ Init
    /\ [][Next]_vars
    /\ WF_vars(ProcessorRetrieve)
    /\ WF_vars(ProcessorReport)
    /\ WF_vars(Tick)

NextTimed == TaskStep \/ TickIdle

SpecTimed == Init /\ [][NextTimed]_vars

\* The tick count advances only when every task is blocked, up to the end of
\* the second contact window's poll period.
TickIdleFair ==
    /\ \A task \in Tasks : ~Ready(task)
    /\ NextTime - t0 <= MaxTickFair
    /\ tick' = NextTime
    /\ wake' = Woken(NextTime)
    /\ UNCHANGED <<pc, collectorVars, queueVars, processorVars,
                   transmitterVars, t0, genHist, deqHist, initHist, usedUninit,
                   gateHist, burstHist, periodHist>>

NextTimedFair == TaskStep \/ TickIdleFair

\* No task is ever late, and every task and the tick count make progress.
SpecTimedFair ==
    /\ Init
    /\ [][NextTimedFair]_vars
    /\ WF_vars(CollectorStart \/ CollectorInit \/ generate_system_telemetry
               \/ generate_power_telemetry \/ generate_temperature_telemetry
               \/ generate_subsystem_telemetry \/ CollectorDelayUntil)
    /\ WF_vars(ProcessorRetrieve \/ ProcessorReport)
    /\ WF_vars(TransmitterGate \/ TransmitterCheck \/ TransmitterDrain)
    /\ WF_vars(TickIdleFair)

(* =============================== claims ================================ *)
SeqOf(p) == p.header.sequence

\* b was stamped after a: the 16-bit distance from a to b is 1..2^15-1.
After(a, b) == (b - a) % SeqModulus \in 1..(SeqModulus \div 2 - 1)

QueueIndex == 1..Len(queue)

\* C1 (competing consumers): successful stores = processed_count +
\* transmission_count + queue occupancy at every moment; no packet sits in
\* the queue twice, a retrieved packet is no longer in the queue, and the
\* two consumers never hold the same packet.
C1_CompetingConsumers ==
    /\ stored = processed_count + transmission_count + Len(queue)
    /\ \A i, j \in QueueIndex : i < j => queue[i] # queue[j]
    /\ \A i \in QueueIndex : queue[i] # packet_p /\ queue[i] # packet_t
    /\ packet_p # NoPacket => packet_p # packet_t

\* Both consumers have retrieved packets while others are still queued.
C1_Witness ==
    /\ processed_count > 0
    /\ transmission_count > 0
    /\ Len(queue) > 0

\* C2 as stated (sequence continuity on dequeue): of two packets dequeued
\* one directly after the other, the later carries the earlier's sequence
\* plus 1 modulo 2^16.
C2_SequenceContinuity ==
    prevDeq # NoPacket => SeqOf(lastDeq) = NextSeq(SeqOf(prevDeq))

\* C2 amended: of two packets dequeued one directly after the other, the
\* later carries the earlier's sequence plus 1 plus the number of packets
\* built between them whose store failed, modulo 2^16: every sequence number
\* skipped between the two belongs to a packet the full queue rejected.
C2_ContinuityUpToDrops ==
    prevDeq # NoPacket =>
        /\ After(SeqOf(prevDeq), SeqOf(lastDeq))
        /\ SeqOf(prevDeq) \notin dropped
        /\ SeqOf(lastDeq) \notin dropped
        /\ \A k \in 1..(((SeqOf(lastDeq) - SeqOf(prevDeq)) % SeqModulus) - 1) :
               (SeqOf(prevDeq) + k) % SeqModulus \in dropped

\* Two packets dequeued one after the other with a rejected packet between.
C2_Witness ==
    /\ prevDeq # NoPacket
    /\ (SeqOf(lastDeq) - SeqOf(prevDeq)) % SeqModulus > 1

\* C3 (FIFO end to end): the queue holds packets in the order the Collector
\* stored them, every queued packet was stored after the packet dequeued
\* last, so packets leave in store order whichever consumer takes them; the
\* sequence numbers in global dequeue order and per consumer increase, the
\* 16-bit wrap apart.
C3_Fifo ==
    /\ \A i, j \in QueueIndex : i < j => After(SeqOf(queue[i]), SeqOf(queue[j]))
    /\ lastDeq # NoPacket => \A i \in QueueIndex : After(SeqOf(lastDeq), SeqOf(queue[i]))
    /\ prevDeq # NoPacket => After(SeqOf(prevDeq), SeqOf(lastDeq))
    /\ packet_p # NoPacket => packet_p = lastDeq \/ After(SeqOf(packet_p), SeqOf(lastDeq))
    /\ packet_t # NoPacket => packet_t = lastDeq \/ After(SeqOf(packet_t), SeqOf(lastDeq))

\* Two packets stored on either side of the 16-bit wrap were dequeued in
\* store order while later packets wait in the queue.
C3_Witness ==
    /\ prevDeq # NoPacket
    /\ SeqOf(lastDeq) < SeqOf(prevDeq)
    /\ Len(queue) > 0

KindOrder == <<TELEM_SYSTEM_STATUS, TELEM_POWER_DATA, TELEM_TEMPERATURE_DATA,
               TELEM_COMMUNICATION_STATUS>>

\* Generator calls the Collector has made in its current cycle.
CallsMade ==
    CASE pc["collector"] = "gen_power" -> 1
      [] pc["collector"] = "gen_temperature" -> 2
      [] pc["collector"] = "gen_subsystem" -> 3
      [] pc["collector"] = "delay" -> 4
      [] OTHER -> 0

\* C4 as stated (kind coverage per cycle): a finished Collector cycle has
\* enqueued exactly 4 packets, one of each kind, in the order SystemStatus,
\* Power, Temperature, SubsystemStatus.
C4_KindCoverage ==
    pc["collector"] = "delay" =>
        /\ Len(cycleLog) = 4
        /\ \A i \in 1..4 : cycleLog[i].type = KindOrder[i] /\ cycleLog[i].stored

\* C4 amended: every Collector cycle builds exactly 4 packets, one of each
\* kind, in the order SystemStatus, Power, Temperature, SubsystemStatus, and
\* hands each to the queue right after it is built and before the next one
\* is built; each is enqueued unless the queue is full at that moment, and
\* a packet that found the queue full is dropped.
C4_KindCoverageBuilt ==
    /\ [](/\ Len(cycleLog) = CallsMade
          /\ \A i \in 1..Len(cycleLog) :
                /\ cycleLog[i].type = KindOrder[i]
                /\ cycleLog[i].stored <=> cycleLog[i].sequence \notin dropped)
    /\ [][built' # built =>
            /\ built' = built + 1
            /\ Len(cycleLog') = Len(cycleLog) + 1
            /\ lastBuilt'.header.type = KindOrder[Len(cycleLog')]
            /\ IF Len(queue) < QueueCapacity
               THEN queue' = Append(queue, lastBuilt') /\ stored' = stored + 1
               ELSE queue' = queue /\ stored' = stored]_vars

\* A cycle has finished with four packets built and at least one dropped.
C4_Witness ==
    /\ pc["collector"] = "delay"
    /\ Len(cycleLog) = 4
    /\ \E i \in 1..4 : ~cycleLog[i].stored

\* C5 (initialisation precedes all use): telemetry_storage_init runs at
\* most once and no task calls store, retrieve or available before it has
\* run.
C5_InitBeforeUse == initCount <= 1 /\ ~usedUninit

\* The generator the Collector calls after the one at `at`.
AfterGenerator(at) ==
    CASE at = "gen_system" -> "gen_power"
      [] at = "gen_power" -> "gen_temperature"
      [] at = "gen_temperature" -> "gen_subsystem"
      [] at = "gen_subsystem" -> "delay"

\* C6 (queue-full handling): a store into a queue holding QueueCapacity
\* packets fails and leaves occupancy and contents unchanged; the Collector
\* does not repeat the call and does not block but goes on to its next
\* statement; no rejected packet is ever in the queue or in a consumer's
\* hands.
C6_QueueFull ==
    /\ [][(built' # built /\ Len(queue) = QueueCapacity) =>
            /\ queue' = queue
            /\ stored' = stored
            /\ SeqOf(lastBuilt') \in dropped'
            /\ pc'["collector"] = AfterGenerator(pc["collector"])
            /\ wake' = wake
            /\ sequence_number' = NextSeq(sequence_number)]_vars
    /\ [](\A d \in dropped :
            /\ \A i \in QueueIndex : SeqOf(queue[i]) # d
            /\ lastDeq # NoPacket => SeqOf(lastDeq) # d
            /\ packet_p # NoPacket => SeqOf(packet_p) # d
            /\ packet_t # NoPacket => SeqOf(packet_t) # d)

\* After a rejected packet a later packet was stored and has been
\* retrieved, and the Collector is in a following cycle.
C6_Witness ==
    /\ \E d \in dropped : lastDeq # NoPacket /\ After(d, SeqOf(lastDeq))
    /\ pc["collector"] = "delay"

\* C7 (window gating): the Transmitter is in its drain loop only in a poll
\* iteration whose gate condition held when it was evaluated, and in an
\* iteration whose gate condition was false ground_station_available is
\* false, so that iteration reads and retrieves nothing.
C7_WindowGating ==
    /\ pc["transmitter"] = "drain" => gateCond /\ ground_station_available
    /\ (pc["transmitter"] = "check" /\ ~gateCond) => ~ground_station_available

\* After a burst, a poll with the gate condition false finds packets queued
\* and leaves them.
C7_Witness ==
    /\ pc["transmitter"] = "check"
    /\ ~gateCond
    /\ transmission_count > 0
    /\ Len(queue) > 0

\* C8 (single shared sequence counter): the counter equals the number of
\* generator calls modulo 2^16, and the n-th packet built (n from 0, all
\* kinds, stored or not) carries sequence n mod 2^16.
C8_SharedCounter ==
    /\ sequence_number = built % SeqModulus
    /\ built > 0 => SeqOf(lastBuilt) = (built - 1) % SeqModulus
    /\ \A i \in 1..Len(cycleLog) :
           cycleLog[i].sequence = (built - Len(cycleLog) + i - 1) % SeqModulus

\* Packet number 65536 has been built and carries sequence 0.
C8_Witness ==
    /\ built = SeqModulus + 1
    /\ SeqOf(lastBuilt) = 0
    /\ sequence_number = 1

\* C9 (no duplicate bursts in a window): within one contact window the
\* Transmitter opens its gate in at most one poll iteration.
C9_OneOpeningPerWindow == openCount <= 1

\* The gate opens in a later window after bursts in earlier windows.
C9_Witness ==
    /\ openWin >= 1
    /\ openCount = 1
    /\ pc["transmitter"] = "check"
    /\ transmission_count > 4

\* C10 (no missed window): once a contact window is over, the Transmitter
\* has evaluated its gate inside that window and opened it.
C10_NoMissedWindow ==
    (tick >= TicksPerUnit /\ ~GateCondition(tick)) => openWin = WindowOf(tick)

\* C11: the Processor is suspended only by a retrieve that found the queue
\* empty, for exactly the idle interval of 1000 ms, and retries afterwards;
\* a successful retrieve adds one to processed_count and leaves the
\* Processor ready.  While no task is kept waiting, the tick count never
\* passes the Processor's wake tick, so a packet stored while the Processor
\* is idle meets a retrieve attempt at most one idle interval later.
C11_ProcessorPolling ==
    /\ [](~Ready("processor") =>
            /\ pc["processor"] = "retrieve"
            /\ wake["processor"] - tick \in 1..pdMS_TO_TICKS(ProcessorIdleMs))
    /\ [][(Ready("processor") /\ wake'["processor"] > tick') =>
            /\ pc["processor"] = "retrieve"
            /\ ~RetrieveOk(queue)
            /\ wake'["processor"] = tick + pdMS_TO_TICKS(ProcessorIdleMs)
            /\ processed_count' = processed_count
            /\ pc'["processor"] = "retrieve"]_vars
    /\ [][processed_count' # processed_count =>
            /\ RetrieveOk(queue)
            /\ processed_count' = processed_count + 1
            /\ queue' = Tail(queue)
            /\ wake'["processor"] <= tick']_vars
    /\ [][tick' # tick =>
            /\ ~Ready("processor")
            /\ tick' <= wake["processor"]]_vars

\* A packet lies in the queue while the Processor, which has processed
\* packets before, sits in its idle delay.
C11_Witness ==
    /\ ~Ready("processor")
    /\ Len(queue) > 0
    /\ processed_count > 0

\* C12: whenever the Transmitter is at the top of its loop, suspended in the
\* 2000 ms poll delay or about to evaluate the gate, ground_station_available
\* is false; it is true only between a gate evaluation that found the
\* condition true and the end of that same iteration.
C12_GateClosed ==
    /\ pc["transmitter"] = "gate" => ~ground_station_available
    /\ ground_station_available =>
          /\ gateCond
          /\ pc["transmitter"] \in {"check", "drain"}

\* The Transmitter sits in its poll delay after an iteration that opened the
\* gate and found occupancy zero (it has never sent a packet).
C12_Witness ==
    /\ pc["transmitter"] = "gate"
    /\ ~Ready("transmitter")
    /\ gateCond
    /\ transmission_count = 0
    /\ ~ground_station_available

\* C13: a burst runs only with the gate open and a nonzero occupancy read;
\* every packet the Transmitter retrieves is the head of the queue, adds
\* exactly one to transmission_count and is followed by the 50 ms delay
\* inside the burst; the burst ends only on an empty queue, closing the
\* gate and entering the poll delay.  Packets stored during the burst are
\* therefore sent in the same burst.
C13_BurstDrainsQueue ==
    /\ [](pc["transmitter"] = "drain" =>
             ground_station_available /\ available > 0)
    /\ [][transmission_count' # transmission_count =>
            /\ pc["transmitter"] = "drain"
            /\ RetrieveOk(queue)
            /\ packet_t' = Head(queue)
            /\ queue' = Tail(queue)
            /\ transmission_count' = transmission_count + 1
            /\ burstSent' = burstSent + 1
            /\ wake'["transmitter"] = tick + pdMS_TO_TICKS(BurstDelayMs)
            /\ pc'["transmitter"] = "drain"]_vars
    /\ [][(pc["transmitter"] = "drain" /\ pc'["transmitter"] # "drain") =>
            /\ queue = <<>>
            /\ queue' = <<>>
            /\ transmission_count' = transmission_count
            /\ ~ground_station_available'
            /\ pc'["transmitter"] = "gate"
            /\ wake'["transmitter"] = tick + pdMS_TO_TICKS(PollDelayMs)]_vars

\* A running burst has already sent more packets than the occupancy read at
\* its start: it has sent packets stored while it ran.
C13_Witness ==
    /\ pc["transmitter"] = "drain"
    /\ burstSent > available

\* C14: after k calls of vTaskDelayUntil the Collector's deadline is its
\* start tick plus k * 5000 ms, whatever the tick count was at the calls;
\* a call made before the deadline blocks the Collector until exactly the
\* deadline, and the tick count does not pass a deadline the Collector is
\* blocked on.
C14_DriftFreePeriod ==
    /\ [](pc["collector"] # "start" =>
            /\ xLastWakeTime = startTick + cycle * pdMS_TO_TICKS(CollectorPeriodMs)
            /\ wake["collector"] \in {0, xLastWakeTime})
    /\ [](~Ready("collector") => pc["collector"] = "gen_system")
    /\ [][cycle' # cycle =>
            /\ cycle' = cycle + 1
            /\ xLastWakeTime' = xLastWakeTime + pdMS_TO_TICKS(CollectorPeriodMs)
            /\ (tick < xLastWakeTime' => wake'["collector"] = xLastWakeTime')]_vars
    /\ [][(tick' # tick /\ ~Ready("collector")) =>
            tick' <= wake["collector"]]_vars

\* The Collector is blocked until the first deadline, one period after its
\* start tick, after a cycle during which the tick count advanced.
C14_Witness ==
    /\ cycle = 1
    /\ cycleTookTime
    /\ ~Ready("collector")
    /\ wake["collector"] = startTick + pdMS_TO_TICKS(CollectorPeriodMs)

\* C15: system_uptime is 0 at boot and is advanced only by
\* generate_system_telemetry, by one per Collector cycle, whether or not the
\* store succeeds: in cycle k it is k before that call and k + 1 after it.
\* The SystemStatus packet built in cycle k carries uptime_seconds = k and
\* the SubsystemStatus packet of the same cycle carries comms_uptime = k + 1.
C15_UptimeCounter ==
    /\ [](system_uptime =
            IF pc["collector"] \in {"start", "init", "gen_system"}
            THEN cycle ELSE cycle + 1)
    /\ [](pc["collector"] \in {"start", "init"} => system_uptime = 0)
    /\ [](pc["collector"] = "gen_power" =>
            /\ lastBuilt.header.type = TELEM_SYSTEM_STATUS
            /\ lastBuilt.payload.uptime_seconds = cycle)
    /\ [](pc["collector"] = "delay" =>
            /\ lastBuilt.header.type = TELEM_COMMUNICATION_STATUS
            /\ lastBuilt.payload.comms_uptime = cycle + 1)
    /\ [][system_uptime' # system_uptime =>
            /\ pc["collector"] = "gen_system"
            /\ pc'["collector"] = "gen_power"
            /\ system_uptime' = system_uptime + 1]_vars

\* The SystemStatus packet of a cycle after the first was rejected by a full
\* queue, and the counter has advanced all the same.
C15_Witness ==
    /\ pc["collector"] = "gen_power"
    /\ cycle >= 1
    /\ ~cycleLog[1].stored
    /\ lastBuilt.payload.uptime_seconds = cycle
    /\ system_uptime = cycle + 1

\* C16: when the Transmitter is back at the top of its loop, the number of
\* packets it retrieved in the burst of its last open-gate iteration equals
\* the occupancy it read (and, when nonzero, announced) in that iteration.
C16_AnnouncedIsSent ==
    pc["transmitter"] = "gate" => burstSent = available

\* The position of a packet's kind in the Collector's call order equals its
\* sequence number modulo 4.
Aligned(p) ==
    p = NoPacket \/ KindOrder[(SeqOf(p) % 4) + 1] = p.header.type

\* C17: every packet built, held in the queue or retrieved by a consumer
\* has sequence mod 4 = 0 for SystemStatus, 1 for Power, 2 for Temperature
\* and 3 for SubsystemStatus, before and after the 16-bit wrap and after
\* failed stores; the counter itself agrees with the Collector's position
\* in its cycle.
C17_SequenceKindAligned ==
    /\ \A i \in QueueIndex : Aligned(queue[i])
    /\ Aligned(lastBuilt)
    /\ Aligned(lastDeq)
    /\ Aligned(prevDeq)
    /\ Aligned(packet_p)
    /\ Aligned(packet_t)
    /\ sequence_number % 4 = CallsMade % 4

\* After the wrap, the SystemStatus packet with sequence 0 was rejected by a
\* full queue and the Power packet with sequence 1 has been retrieved.
C17_Witness ==
    /\ built > SeqModulus
    /\ 0 \in dropped
    /\ lastDeq # NoPacket
    /\ SeqOf(lastDeq) = 1
    /\ lastDeq.header.type = TELEM_POWER_DATA

\* payload_uptime of a SubsystemStatus packet against the system_uptime the
\* packet was built from (its comms_uptime), as 16-bit halves of the 32-bit
\* value.
PayloadUptimeWraps(p) ==
    p.header.type = TELEM_COMMUNICATION_STATUS =>
        IF p.payload.comms_uptime < PayloadUptimeOffset
        THEN /\ p.payload.payload_uptime.hi = SeqModulus - 1
             /\ p.payload.payload_uptime.lo =
                    SeqModulus - PayloadUptimeOffset + p.payload.comms_uptime
        ELSE p.payload.payload_uptime.hi * SeqModulus + p.payload.payload_uptime.lo
                 = p.payload.comms_uptime - PayloadUptimeOffset

\* C20: payload_uptime of every SubsystemStatus packet is system_uptime - 100
\* in unsigned 32-bit arithmetic: system_uptime - 100 + 2^32 while
\* system_uptime < 100 and the true difference once system_uptime >= 100.
C20_PayloadUptimeUnderflow ==
    /\ \A i \in QueueIndex : PayloadUptimeWraps(queue[i])
    /\ PayloadUptimeWraps(lastBuilt)
    /\ PayloadUptimeWraps(lastDeq)
    /\ PayloadUptimeWraps(packet_p)
    /\ PayloadUptimeWraps(packet_t)

\* The SubsystemStatus packet of the first cycle (system_uptime = 1) has been
\* retrieved carrying 2^32 - 99.
C20_Witness ==
    /\ lastDeq.header.type = TELEM_COMMUNICATION_STATUS
    /\ lastDeq.payload.comms_uptime = 1
    /\ lastDeq.payload.payload_uptime =
           [hi |-> SeqModulus - 1, lo |-> SeqModulus - PayloadUptimeOffset + 1]


\* Number of successful retrieve calls so far, by either consumer.
Retrieved == processed_count + transmission_count

\* The tick count has reached the end of the modelled time span.
HorizonReached == NextTime - t0 > MaxTick

\* C18: with the Processor scheduled fairly, whenever the queue holds a
\* packet a further retrieve eventually takes the packet at its head (the
\* count of retrieves changes parity), although the Collector keeps storing:
\* as the queue is first-in first-out, every stored packet is eventually
\* retrieved by the Processor or the Transmitter.  Within the modelled time
\* span the only packets left are those stored while the Processor sits in
\* an idle delay that ends after the span.
C18_NoPacketStaysForever ==
    \A r \in {0, 1} :
        (queue # <<>> /\ Retrieved % 2 = r)
            ~> (Retrieved % 2 # r \/ (HorizonReached /\ ~Ready("processor")))

\* A packet of the second cycle has been retrieved by the Processor while
\* the Transmitter's gate is closed.
C18_Witness ==
    /\ lastDeq # NoPacket
    /\ SeqOf(lastDeq) \in 4..7
    /\ lastDeq = packet_p
    /\ ~ground_station_available
    /\ cycle >= 1

\* C19: a Transmitter that has entered its drain loop eventually finds the
\* queue empty, closes the gate and sits in its 2000 ms poll delay, although
\* the Collector stores packets while the burst runs.
C19_BurstTerminates ==
    pc["transmitter"] = "drain"
        ~> /\ pc["transmitter"] = "gate"
           /\ queue = <<>>
           /\ ~ground_station_available
           /\ wake["transmitter"] = tick + pdMS_TO_TICKS(PollDelayMs)

\* A burst has ended after sending more packets than the occupancy read at
\* its start: the Collector stored packets while it ran.
C19_Witness ==
    /\ pc["transmitter"] = "gate"
    /\ ~Ready("transmitter")
    /\ burstSent > available
    /\ available > 0
    /\ ~ground_station_available

====
